---- MODULE Spec2Model ----
(***************************************************************************)
(* The visit-counter HTTP service: the storage abstraction, the visit      *)
(* handler, the middleware chain (logging, metrics, CORS, origin check in  *)
(* its two variants) and the metrics registry.                             *)
(*                                                                         *)
(* A request is served by a chain of layers, outermost first; each layer   *)
(* is an operator taking the rest of the chain (next) and the request      *)
(* context c, and returning the context after it has returned.  Strings    *)
(* that the code splits or compares are sequences of one-character         *)
(* strings, so that strings.Split and == are computed, not assumed.        *)
(***************************************************************************)
EXTENDS Integers, Sequences, FiniteSets, Bags, TLC

VARIABLES
    env,                  \* the ALLOWED_ORIGINS environment value ("" = unset)
    visits,               \* the visits table: a sequence of rows [id, timestamp]
    httpRequestsTotal,    \* counter vector keyed by <<method, endpoint>>
    httpRequestDuration,  \* histogram vector: observations per <<method, endpoint>>
    incremented,          \* history: successful IncrementVisitCount calls so far
    last,                 \* the last request whose handler returned: inputs,
                          \* response, events
    boot,                 \* the SetupDatabase call: inputs, what it returned, and
                          \* the state of its pool now
    phase,                \* main(): "boot", "serving", "draining" or "exited"
    exitCode,             \* the exit status once phase is "exited"
    handler,              \* the chain main() registered for apiPath
    flight,               \* the requests in flight: a bag of <<request, dbOk>>
    batch,                \* history: the count when no request was in flight
                          \* last, and the inserting POSTs accepted since
    decisions             \* history: <<Origin, Host, passed>> of origin check since start

requestVars == <<visits, httpRequestsTotal, httpRequestDuration, incremented, last>>

serverVars == <<phase, exitCode, handler, flight, batch, decisions>>

vars == <<env, visits, httpRequestsTotal, httpRequestDuration, incremented, last,
          boot, phase, exitCode, handler, flight, batch, decisions>>

---------------------------------------------------------------------------
(* Bounds of the model *)

MaxVisits == 3

MaxCount == 2

MaxTime == 2

MaxInflight == 2

---------------------------------------------------------------------------
(* Program constants *)

StatusOK == 200

StatusForbidden == 403

StatusMethodNotAllowed == 405

StatusInternalServerError == 500

StatusNotFound == 404

\* the recorder's code before any WriteHeader: nothing written yet
Unwritten == 0

apiPath == "/api/count"

---------------------------------------------------------------------------
(* Input sets *)

\* ALLOWED_ORIGINS values: unset, one origin, two origins, a trailing
\* separator, a blank after the separator, and a doubled letter
EnvValues == {<<>>,
              <<"a">>,
              <<"a", ",", "A">>,
              <<"a", ",">>,
              <<"a", ",", " ", "A">>,
              <<"a", "a">>}

\* Origin header values; <<>> is r.Header.Get("Origin") of a request without one
Origins == {<<>>, <<"a">>, <<"A">>, <<" ", "A">>}

\* r.Host values
Hosts == {<<"a">>, <<"b">>}

Methods == {"GET", "POST", "PUT", "get"}

Paths == {apiPath, "/"}

Timestamps == 1..MaxTime

Labels == Methods \X Paths

\* a request is <<method, path, Origin header, Host>>
Method(req) == req[1]

Path(req) == req[2]

Origin(req) == req[3]

Host(req) == req[4]

---------------------------------------------------------------------------
(* strings.Split(s, ","): the substrings between separators; Split("")     *)
(* is one empty string, and a leading, trailing or doubled separator       *)
(* yields an empty substring.                                              *)

Index(s, sep) ==
    IF \E i \in DOMAIN s : s[i] = sep
    THEN CHOOSE i \in DOMAIN s : s[i] = sep /\ \A j \in 1..(i-1) : s[j] # sep
    ELSE 0

RECURSIVE Split(_, _)
Split(s, sep) ==
    LET i == Index(s, sep) IN
    IF i = 0 THEN <<s>>
    ELSE <<SubSeq(s, 1, i - 1)>> \o Split(SubSeq(s, i + 1, Len(s)), sep)

---------------------------------------------------------------------------
(* strconv / encoding/json of an int: decimal digits, and back.            *)

DigitChar == <<"0", "1", "2", "3", "4", "5", "6", "7", "8", "9">>

RECURSIVE Itoa(_)
Itoa(n) ==
    IF n < 10 THEN <<DigitChar[n + 1]>>
    ELSE Itoa(n \div 10) \o <<DigitChar[(n % 10) + 1]>>

DigitValue(ch) == (CHOOSE i \in DOMAIN DigitChar : DigitChar[i] = ch) - 1

RECURSIVE Atoi(_)
Atoi(s) ==
    IF Len(s) = 0 THEN 0
    ELSE 10 * Atoi(SubSeq(s, 1, Len(s) - 1)) + DigitValue(s[Len(s)])

\* json.NewEncoder(w).Encode(map[string]string{"message": ...}) writes this
MessageBody == <<"{\"message\":\"Visit count incremented\"}", "\n">>

\* json.NewEncoder(w).Encode(map[string]int{"visits": count}) writes this
VisitsBody(count) == <<"{\"visits\":">> \o Itoa(count) \o <<"}", "\n">>

\* json.Unmarshal of a body chunk into map[string]int, then ["visits"]
VisitsOf(chunk) == Atoi(SubSeq(chunk, 2, Len(chunk) - 2))

---------------------------------------------------------------------------
(* The storage abstraction (DataStore): the visits table is a sequence of  *)
(* rows; ok says whether the engine accepts the statement.                 *)

\* a bug: the one row of a counter is read, then written back with a fixed id
MutIncrementUpsert(store, timestamp, ok) ==
    IF ok
    THEN [store |-> <<[id |-> 1, timestamp |-> timestamp]>>, err |-> FALSE]
    ELSE [store |-> store, err |-> TRUE]

\* INSERT INTO visits (timestamp) VALUES (?): one new row, id auto-assigned
IncrementVisitCount(store, timestamp, ok) ==
    IF ok
    THEN [store |-> Append(store, [id |-> Len(store) + 1, timestamp |-> timestamp]),
          err |-> FALSE]
    ELSE [store |-> store, err |-> TRUE]

\* a bug: the row is never scanned into count
MutGetVisitCountNoScan(store, ok) ==
    IF ok THEN [count |-> 0, err |-> FALSE]
    ELSE [count |-> 0, err |-> TRUE]

\* SELECT COUNT(*) FROM visits: (count, nil), or (0, err)
GetVisitCount(store, ok) ==
    IF ok THEN [count |-> Len(store), err |-> FALSE]
    ELSE [count |-> 0, err |-> TRUE]

---------------------------------------------------------------------------
(* Construction of the networked store: SetupDatabase.  The environment is *)
(* the values of DBKeys in that order, <<>> for an unset variable.         *)

DBKeys == <<"DB_USER", "DB_PASSWORD", "DB_HOST", "DB_PORT", "DB_NAME">>

\* values of a variable: unset, a digit, a letter
DBValues == {<<>>, <<"5">>, <<"x">>}

DBEnvs == DBValues \X DBValues \X DBValues \X DBValues \X DBValues

Getenv(environ, k) == environ[CHOOSE i \in DOMAIN DBKeys : DBKeys[i] = k]

\* (value, nil), or ("", error) for an unset or empty variable
mustGetenv(environ, k) ==
    [v |-> Getenv(environ, k), err |-> Getenv(environ, k) = <<>>]

\* fmt.Sprintf("postgres://%s:%s@%s:%s/%s", ...)
ConnString(dbUser, dbPassword, dbHost, dbPort, dbName) ==
    <<"postgres://">> \o dbUser \o <<":">> \o dbPassword \o <<"@">> \o dbHost
        \o <<":">> \o dbPort \o <<"/">> \o dbName

LastIndex(s, sep) ==
    IF \E i \in DOMAIN s : s[i] = sep
    THEN CHOOSE i \in DOMAIN s : s[i] = sep /\ \A j \in (i+1)..Len(s) : s[j] # sep
    ELSE 0

IsDigits(s) == \A i \in DOMAIN s : \E d \in DOMAIN DigitChar : DigitChar[d] = s[i]

\* pgxpool.ParseConfig of a URL: the authority ends at the first "/", the
\* user info at its last "@", the password starts at the first ":" of the user
\* info and the port at the last ":" of the rest.  An empty component is
\* accepted and left to the defaults; a port must be a number in 1..65535.
ParseConfig(connString) ==
    LET rest      == Tail(connString)
        slash     == Index(rest, "/")
        authority == IF slash = 0 THEN rest ELSE SubSeq(rest, 1, slash - 1)
        path      == IF slash = 0 THEN <<>> ELSE SubSeq(rest, slash + 1, Len(rest))
        at        == LastIndex(authority, "@")
        userinfo  == SubSeq(authority, 1, at - 1)
        hostport  == SubSeq(authority, at + 1, Len(authority))
        colon     == Index(userinfo, ":")
        portAt    == LastIndex(hostport, ":")
        port      == IF portAt = 0 THEN <<>>
                     ELSE SubSeq(hostport, portAt + 1, Len(hostport))
    IN [user     |-> IF colon = 0 THEN userinfo ELSE SubSeq(userinfo, 1, colon - 1),
        password |-> IF colon = 0 THEN <<>>
                     ELSE SubSeq(userinfo, colon + 1, Len(userinfo)),
        host     |-> IF portAt = 0 THEN hostport ELSE SubSeq(hostport, 1, portAt - 1),
        port     |-> port,
        database |-> path,
        err      |-> \/ Head(connString) # "postgres://"
                     \/ ~IsDigits(port)
                     \/ port # <<>> /\ (Atoi(port) < 1 \/ Atoi(port) > 65535)]

\* what SetupDatabase returns: store says whether a store is returned (else nil),
\* err is the error message ("" for nil), pool the state of the pool it
\* opened, calls the steps it made
Returned(store, err, pool, config, calls) ==
    [store |-> store, err |-> err, pool |-> pool, config |-> config, calls |-> calls]

\* a bug: the pool is left open when the table cannot be created
MutSetupLeaksPool(environ, newOk, pingOk, createOk) ==
    LET config == ParseConfig(ConnString(mustGetenv(environ, "DB_USER").v,
                                         mustGetenv(environ, "DB_PASSWORD").v,
                                         mustGetenv(environ, "DB_HOST").v,
                                         mustGetenv(environ, "DB_PORT").v,
                                         mustGetenv(environ, "DB_NAME").v))
    IN
    IF config.err
    THEN Returned(FALSE, "failed to parse config", "none", config, <<"ParseConfig">>)
    ELSE IF ~newOk
    THEN Returned(FALSE, "failed to create connection pool", "none", config,
                  <<"ParseConfig", "NewWithConfig">>)
    ELSE IF ~pingOk
    THEN Returned(FALSE, "failed to ping database", "closed", config,
                  <<"ParseConfig", "NewWithConfig", "Ping", "Close">>)
    ELSE IF ~createOk
    THEN Returned(FALSE, "failed to create table", "open", config,
                  <<"ParseConfig", "NewWithConfig", "Ping", "createTable">>)
    ELSE Returned(TRUE, "", "open", config,
                  <<"ParseConfig", "NewWithConfig", "Ping", "createTable">>)

\* the errors of mustGetenv are ignored; parse, open the pool, ping, create
\* the table; the pool is closed when the ping or the table creation fails
SetupDatabase(environ, newOk, pingOk, createOk) ==
    LET config == ParseConfig(ConnString(mustGetenv(environ, "DB_USER").v,
                                         mustGetenv(environ, "DB_PASSWORD").v,
                                         mustGetenv(environ, "DB_HOST").v,
                                         mustGetenv(environ, "DB_PORT").v,
                                         mustGetenv(environ, "DB_NAME").v))
    IN
    IF config.err
    THEN Returned(FALSE, "failed to parse config", "none", config, <<"ParseConfig">>)
    ELSE IF ~newOk
    THEN Returned(FALSE, "failed to create connection pool", "none", config,
                  <<"ParseConfig", "NewWithConfig">>)
    ELSE IF ~pingOk
    THEN Returned(FALSE, "failed to ping database", "closed", config,
                  <<"ParseConfig", "NewWithConfig", "Ping", "Close">>)
    ELSE IF ~createOk
    THEN Returned(FALSE, "failed to create table", "closed", config,
                  <<"ParseConfig", "NewWithConfig", "Ping", "createTable", "Close">>)
    ELSE Returned(TRUE, "", "open", config,
                  <<"ParseConfig", "NewWithConfig", "Ping", "createTable">>)

---------------------------------------------------------------------------
(* http.ResponseWriter: the status is fixed by the first WriteHeader (a    *)
(* later one is superfluous and ignored), a Write before any WriteHeader   *)
(* sends 200, and headers set after the status is written are not sent.    *)

NoHeader == <<>>

NewRecorder == [code |-> Unwritten, allowOrigin |-> NoHeader,
                contentType |-> "", body |-> <<>>]

WriteHeader(w, code) ==
    IF w.code # Unwritten THEN w ELSE [w EXCEPT !.code = code]

Write(w, chunk, ok) ==
    LET w1 == WriteHeader(w, StatusOK) IN
    IF ok THEN [w1 EXCEPT !.body = Append(@, chunk)] ELSE w1

SetContentType(w, value) ==
    IF w.code # Unwritten THEN w ELSE [w EXCEPT !.contentType = value]

SetAllowOrigin(w, value) ==
    IF w.code # Unwritten THEN w ELSE [w EXCEPT !.allowOrigin = value]

\* http.Error(w, msg, code)
HttpError(w, msg, code, ok) ==
    Write(WriteHeader(SetContentType(w, "text/plain; charset=utf-8"), code),
          <<msg, "\n">>, ok)

\* the status the client (or the test's recorder) sees once the handler returned
Code(w) == IF w.code = Unwritten THEN StatusOK ELSE w.code

---------------------------------------------------------------------------
(* The request context: the request, the process state the handlers read   *)
(* and write, the outcomes of the I/O done on its behalf, and the calls    *)
(* made so far.                                                            *)

Call(c, name) == [c EXCEPT !.events = Append(@, name)]

Calls(events, name) == Cardinality({i \in DOMAIN events : events[i] = name})

---------------------------------------------------------------------------
(* The visit handler *)

\* a bug: the storage error is not checked
MutIncrementNoCheck(c) ==
    LET r  == IncrementVisitCount(c.store, c.now, c.dbOk)
        c1 == [Call(c, "IncrementVisitCount") EXCEPT !.store = r.store]
        w1 == WriteHeader(SetContentType(c1.w, "application/json"), StatusOK)
    IN [c1 EXCEPT !.w = Write(w1, MessageBody, c.writeOk)]

incrementVisitCount(c) ==
    LET r  == IncrementVisitCount(c.store, c.now, c.dbOk)
        c1 == [Call(c, "IncrementVisitCount") EXCEPT !.store = r.store]
    IN
    IF r.err
    THEN [c1 EXCEPT !.w = HttpError(@, "Failed to increment visit count",
                                    StatusInternalServerError, c.writeOk)]
    ELSE LET w1 == WriteHeader(SetContentType(c1.w, "application/json"), StatusOK)
             w2 == Write(w1, MessageBody, c.writeOk)
         IN IF c.writeOk
            THEN [c1 EXCEPT !.w = w2]
            ELSE [c1 EXCEPT !.w = HttpError(w2, "Failed to encode response",
                                            StatusInternalServerError, c.writeOk)]

\* a bug: reading the count is recorded as a visit
MutGetCountsAVisit(c) ==
    LET r  == GetVisitCount(c.store, c.dbOk)
        c1 == [Call(c, "GetVisitCount") EXCEPT
                  !.store = IncrementVisitCount(c.store, c.now, c.dbOk).store]
    IN
    IF r.err
    THEN [c1 EXCEPT !.w = HttpError(@, "Failed to get visit count",
                                    StatusInternalServerError, c.writeOk)]
    ELSE [c1 EXCEPT !.w = Write(SetContentType(@, "application/json"),
                                VisitsBody(r.count), c.writeOk)]

getVisitCount(c) ==
    LET r  == GetVisitCount(c.store, c.dbOk)
        c1 == Call(c, "GetVisitCount")
    IN
    IF r.err
    THEN [c1 EXCEPT !.w = HttpError(@, "Failed to get visit count",
                                    StatusInternalServerError, c.writeOk)]
    ELSE [c1 EXCEPT !.w = Write(SetContentType(@, "application/json"),
                                VisitsBody(r.count), c.writeOk)]

\* a bug: a verb other than GET and POST empties the table
MutHandlerOtherVerbResets(c) ==
    CASE Method(c.req) = "POST" -> incrementVisitCount(c)
      [] Method(c.req) = "GET"  -> getVisitCount(c)
      [] OTHER -> [c EXCEPT !.store = <<>>, !.w = WriteHeader(@, StatusOK)]

\* a bug: every verb but GET is taken for a POST
MutHandlerDefaultIncrements(c) ==
    IF Method(c.req) = "GET" THEN getVisitCount(c) ELSE incrementVisitCount(c)

visitCountHandler(c) ==
    CASE Method(c.req) = "POST" -> incrementVisitCount(c)
      [] Method(c.req) = "GET"  -> getVisitCount(c)
      [] OTHER -> [c EXCEPT !.w = HttpError(@, "Invalid request method",
                                            StatusMethodNotAllowed, c.writeOk)]

\* the tests' downstream handler: w.WriteHeader(http.StatusOK)
dummyHandler(c) == [c EXCEPT !.w = WriteHeader(@, StatusOK)]

---------------------------------------------------------------------------
(* The middleware chain.  A chain is a sequence of layer names, outermost  *)
(* first; next is the rest of the chain below a layer.                     *)

RECURSIVE ServeHTTP(_, _)

\* a bug: the line is logged before the downstream call
MutLoggingLogsFirst(next, c) == ServeHTTP(next, Call(c, "log.Printf"))

\* log.Printf after the downstream call has returned
loggingMiddleware(next, c) ==
    LET c1 == ServeHTTP(next, c) IN Call(c1, "log.Printf")

\* strings.TrimSpace, for blanks
RECURSIVE TrimSpace(_)
TrimSpace(s) ==
    IF s # <<>> /\ Head(s) = " " THEN TrimSpace(Tail(s))
    ELSE IF s # <<>> /\ s[Len(s)] = " " THEN TrimSpace(SubSeq(s, 1, Len(s) - 1))
    ELSE s

\* a bug: the entries are trimmed before they are compared
MutAllowedTrims(allowed, origin) ==
    \E i \in DOMAIN Split(allowed, ",") : TrimSpace(Split(allowed, ",")[i]) = origin

\* whether some element of strings.Split(allowed, ",") equals origin
Allowed(allowed, origin) ==
    \E i \in DOMAIN Split(allowed, ",") : Split(allowed, ",")[i] = origin

\* a bug: no return after the 500 for an unset list
MutOriginCheckNoReturn(next, c) ==
    LET c1 == IF c.environ = <<>>
              THEN [c EXCEPT !.w = HttpError(@, "Allowed origins not set",
                                             StatusInternalServerError, c.writeOk)]
              ELSE c
    IN IF ~Allowed(c.environ, Origin(c.req))
       THEN [c1 EXCEPT !.w = HttpError(@, "Forbidden", StatusForbidden, c.writeOk)]
       ELSE ServeHTTP(next, [c1 EXCEPT !.w = SetAllowOrigin(@, Origin(c.req))])

\* middleware.go: unset list -> 500; no match -> 403; match -> CORS header, next
originCheckMiddleware(next, c) ==
    IF c.environ = <<>>
    THEN [c EXCEPT !.w = HttpError(@, "Allowed origins not set",
                                   StatusInternalServerError, c.writeOk)]
    ELSE IF ~Allowed(c.environ, Origin(c.req))
    THEN [c EXCEPT !.w = HttpError(@, "Forbidden", StatusForbidden, c.writeOk)]
    ELSE ServeHTTP(next, [c EXCEPT !.w = SetAllowOrigin(@, Origin(c.req))])

\* a bug: no return after the 403 for an origin that matches no entry
MutOriginMainNoReturn(next, c) ==
    IF c.environ = <<>>
    THEN [c EXCEPT !.w = HttpError(@, "Origin not allowed: ALLOWED_ORIGINS not set",
                                   StatusForbidden, c.writeOk)]
    ELSE LET origin == IF Origin(c.req) = <<>> THEN Host(c.req) ELSE Origin(c.req) IN
         IF Allowed(c.environ, origin)
         THEN ServeHTTP(next, c)
         ELSE ServeHTTP(next, [c EXCEPT !.w = HttpError(@, "Origin not allowed",
                                                        StatusForbidden, c.writeOk)])

\* a bug: the Host is compared as well when the Origin header does not match
MutOriginMainHostToo(next, c) ==
    IF c.environ = <<>>
    THEN [c EXCEPT !.w = HttpError(@, "Origin not allowed: ALLOWED_ORIGINS not set",
                                   StatusForbidden, c.writeOk)]
    ELSE IF Allowed(c.environ, Origin(c.req)) \/ Allowed(c.environ, Host(c.req))
         THEN ServeHTTP(next, c)
         ELSE [c EXCEPT !.w = HttpError(@, "Origin not allowed",
                                        StatusForbidden, c.writeOk)]

\* main.go: unset list -> 403; Origin, or Host when Origin is empty, must match
originCheckMain(next, c) ==
    IF c.environ = <<>>
    THEN [c EXCEPT !.w = HttpError(@, "Origin not allowed: ALLOWED_ORIGINS not set",
                                   StatusForbidden, c.writeOk)]
    ELSE LET origin == IF Origin(c.req) = <<>> THEN Host(c.req) ELSE Origin(c.req) IN
         IF Allowed(c.environ, origin)
         THEN ServeHTTP(next, c)
         ELSE [c EXCEPT !.w = HttpError(@, "Origin not allowed",
                                        StatusForbidden, c.writeOk)]

\* cors.Default().Handler: any origin is allowed for GET, POST and HEAD; a
\* request that carries an Origin gets Access-Control-Allow-Origin: *
corsDefault(next, c) ==
    IF Origin(c.req) # <<>> /\ Method(c.req) \in {"GET", "POST", "HEAD"}
    THEN ServeHTTP(next, [c EXCEPT !.w = SetAllowOrigin(@, <<"*">>)])
    ELSE ServeHTTP(next, c)

Label(req) == <<Method(req), Path(req)>>

\* a bug: the request is counted and timed after next, and only when it
\* was answered 200
MutPrometheusCountsSuccess(next, c) ==
    LET l  == <<Method(c.req), Path(c.req)>>
        c2 == ServeHTTP(next, c)
    IN IF Code(c2.w) = StatusOK
       THEN [c2 EXCEPT !.total[l] = @ + 1, !.duration[l] = @ + 1]
       ELSE c2

\* the counter is incremented before next; the deferred ObserveDuration
\* records one observation when the handler returns
prometheusMiddleware(next, c) ==
    LET l  == Label(c.req)
        c1 == [c EXCEPT !.total[l] = @ + 1]
        c2 == ServeHTTP(next, c1)
    IN [c2 EXCEPT !.duration[l] = @ + 1]

ServeHTTP(chain, c) ==
    LET h    == Head(chain)
        next == Tail(chain)
        c1   == Call(c, h)
    IN CASE h = "prometheusMiddleware"  -> prometheusMiddleware(next, c1)
         [] h = "loggingMiddleware"     -> loggingMiddleware(next, c1)
         [] h = "cors"                  -> corsDefault(next, c1)
         [] h = "originCheckMiddleware" -> originCheckMiddleware(next, c1)
         [] h = "originCheckMain"       -> originCheckMain(next, c1)
         [] h = "visitCountHandler"     -> visitCountHandler(c1)
         [] h = "dummyHandler"          -> dummyHandler(c1)

---------------------------------------------------------------------------
(* State machine *)

NoRequest == <<"", "", <<>>, <<>>>>

\* no request served yet (or none since the environment was last changed)
Idle == [chain |-> <<>>, req |-> NoRequest, dbOk |-> TRUE, writeOk |-> TRUE,
         now |-> 0, w |-> NewRecorder, events |-> <<>>, storeBefore |-> <<>>,
         totalBefore |-> [l \in Labels |-> 0],
         durationBefore |-> [l \in Labels |-> 0]]

\* SetupDatabase not called yet
NotCalled == [called |-> FALSE, environ |-> <<<<>>, <<>>, <<>>, <<>>, <<>>>>,
              newOk |-> TRUE, pingOk |-> TRUE, createOk |-> TRUE,
              r |-> Returned(FALSE, "", "none", ParseConfig(<<"postgres://">>), <<>>),
              pool |-> "none"]

\* a freshly provisioned store, freshly registered metrics, ALLOWED_ORIGINS
\* unset, main() not started
Init ==
    /\ env = <<>>
    /\ visits = <<>>
    /\ httpRequestsTotal = [l \in Labels |-> 0]
    /\ httpRequestDuration = [l \in Labels |-> 0]
    /\ incremented = 0
    /\ last = Idle
    /\ boot = NotCalled
    /\ phase = "boot"
    /\ exitCode = 0
    /\ handler = <<>>
    /\ flight = EmptyBag
    /\ batch = [base |-> 0, posts |-> 0]
    /\ decisions = {}

\* os.Setenv("ALLOWED_ORIGINS", v); os.Unsetenv is Setenv of the empty value
Setenv ==
    \E v \in EnvValues :
        /\ v # env
        /\ env' = v
        /\ last' = Idle
        /\ UNCHANGED <<visits, httpRequestsTotal, httpRequestDuration, incremented>>
        /\ UNCHANGED <<boot, serverVars>>

Request(m, p, o, h) == <<m, p, o, h>>

\* the context after the handler composed as chain has served one request to
\* completion, in the current state: handler.ServeHTTP(rr, req)
Served(chain, req, dbOk, writeOk, now) ==
    ServeHTTP(chain,
              [req |-> req, environ |-> env, dbOk |-> dbOk, writeOk |-> writeOk,
               now |-> now, w |-> NewRecorder, store |-> visits, events |-> <<>>,
               total |-> httpRequestsTotal, duration |-> httpRequestDuration])

\* the caps on the table and the counters
WithinBounds(c) ==
    /\ Len(c.store) <= MaxVisits
    /\ \A l \in Labels : c.total[l] <= MaxCount

\* the inserts that succeeded for the request
Inserted(c) == IF c.dbOk THEN Calls(c.events, "IncrementVisitCount") ELSE 0

\* what is kept of the exchange: inputs, response, calls, and the state before
Exchange(chain, c) ==
    [chain |-> chain, req |-> c.req, dbOk |-> c.dbOk, writeOk |-> c.writeOk,
     now |-> c.now, w |-> c.w, events |-> c.events,
     storeBefore |-> visits, totalBefore |-> httpRequestsTotal,
     durationBefore |-> httpRequestDuration]

\* the visit handler called directly with a data store, as its tests do
HandlerChains == {<<"visitCountHandler">>}

HandlerRequest ==
    \E ch \in HandlerChains, m \in Methods, dbOk \in BOOLEAN, writeOk \in BOOLEAN,
       now \in Timestamps :
        \E c \in {Served(ch, Request(m, apiPath, <<>>, <<"a">>), dbOk, writeOk, now)} :
            /\ WithinBounds(c)
            /\ visits' = c.store
            /\ httpRequestsTotal' = c.total
            /\ httpRequestDuration' = c.duration
            /\ incremented' = incremented + Inserted(c)
            /\ last' = Exchange(ch, c)
            /\ UNCHANGED <<env, boot, serverVars>>

\* the pipeline main.go composes outside production mode
DevChain == <<"cors", "loggingMiddleware", "visitCountHandler">>

DevRequest ==
    \E ch \in {DevChain}, m \in Methods, o \in Origins, dbOk \in BOOLEAN,
       writeOk \in BOOLEAN :
        \E c \in {Served(ch, Request(m, apiPath, o, <<"a">>), dbOk, writeOk, 1)} :
            /\ WithinBounds(c)
            /\ visits' = c.store
            /\ httpRequestsTotal' = c.total
            /\ httpRequestDuration' = c.duration
            /\ incremented' = incremented + Inserted(c)
            /\ last' = Exchange(ch, c)
            /\ UNCHANGED <<env, boot, serverVars>>

\* middleware.go's origin check around the tests' handler and the visit handler
OriginChains == {<<"originCheckMiddleware", "dummyHandler">>,
                 <<"originCheckMiddleware", "visitCountHandler">>}

OriginRequest ==
    \E ch \in OriginChains, m \in {"GET", "POST", "PUT"}, o \in Origins,
       dbOk \in BOOLEAN :
        \E c \in {Served(ch, Request(m, apiPath, o, <<"a">>), dbOk, TRUE, 1)} :
            /\ WithinBounds(c)
            /\ visits' = c.store
            /\ httpRequestsTotal' = c.total
            /\ httpRequestDuration' = c.duration
            /\ incremented' = incremented + Inserted(c)
            /\ last' = Exchange(ch, c)
            /\ UNCHANGED <<env, boot, serverVars>>

\* main.go's origin check: around the tests' handler, and the pipeline main.go
\* composes in production mode
ProdChain == <<"originCheckMain", "cors", "loggingMiddleware", "visitCountHandler">>

MainChains == {<<"originCheckMain", "dummyHandler">>, ProdChain}

MainRequest ==
    \E ch \in MainChains, m \in {"GET", "POST", "PUT"}, o \in Origins, h \in Hosts,
       dbOk \in BOOLEAN :
        \E c \in {Served(ch, Request(m, apiPath, o, h), dbOk, TRUE, 1)} :
            /\ WithinBounds(c)
            /\ visits' = c.store
            /\ httpRequestsTotal' = c.total
            /\ httpRequestDuration' = c.duration
            /\ incremented' = incremented + Inserted(c)
            /\ last' = Exchange(ch, c)
            /\ UNCHANGED <<env, boot, serverVars>>

\* the metrics middleware around a handler that succeeds, one that
\* short-circuits and one that may fail
MetricsChains == {<<"prometheusMiddleware", "dummyHandler">>,
                  <<"prometheusMiddleware", "originCheckMiddleware", "dummyHandler">>,
                  <<"prometheusMiddleware", "visitCountHandler">>}

MetricsRequest ==
    \E ch \in MetricsChains, m \in {"GET", "POST"}, p \in Paths, dbOk \in BOOLEAN :
        \E c \in {Served(ch, Request(m, p, <<"a">>, <<"a">>), dbOk, TRUE, 1)} :
            /\ WithinBounds(c)
            /\ visits' = c.store
            /\ httpRequestsTotal' = c.total
            /\ httpRequestDuration' = c.duration
            /\ incremented' = incremented + Inserted(c)
            /\ last' = Exchange(ch, c)
            /\ UNCHANGED <<env, boot, serverVars>>

\* SetupDatabase(ctx) called, once, in some environment, against a server
\* that may refuse the pool, the ping or the CREATE TABLE
CallSetupDatabase ==
    \E environ \in DBEnvs, newOk \in BOOLEAN, pingOk \in BOOLEAN, createOk \in BOOLEAN :
        /\ ~boot.called
        /\ \E r \in {SetupDatabase(environ, newOk, pingOk, createOk)} :
               boot' = [called |-> TRUE, environ |-> environ, newOk |-> newOk,
                        pingOk |-> pingOk, createOk |-> createOk,
                        r |-> r, pool |-> r.pool]
        /\ UNCHANGED <<env, requestVars, serverVars>>

\* PostgresStore.Close() on the store SetupDatabase returned: s.pool.Close()
CloseStore ==
    /\ boot.called
    /\ boot.r.store
    /\ boot' = [boot EXCEPT !.pool = "closed"]
    /\ UNCHANGED <<env, requestVars, serverVars>>

---------------------------------------------------------------------------
(* The process: main() checks ALLOWED_ORIGINS, composes the handler,       *)
(* registers it and /healthz on the default mux, serves, and shuts down on *)
(* SIGINT or SIGTERM.  A connection carries one request at a time; the     *)
(* handler of a request in flight runs at some later step.                 *)

\* the /healthz handler: 200 when dbConn.Ping() succeeds, else 500
healthz(c) ==
    IF c.dbOk
    THEN [Call(c, "Ping") EXCEPT !.w = WriteHeader(@, StatusOK)]
    ELSE [Call(c, "Ping") EXCEPT !.w = HttpError(@, "Database health check failed",
                                                 StatusInternalServerError, c.writeOk)]

\* http.DefaultServeMux with the two registered patterns; any other path is
\* answered by http.NotFound
ServeMux(registered, c) ==
    CASE Path(c.req) = apiPath    -> ServeHTTP(registered, c)
      [] Path(c.req) = "/healthz" -> healthz(c)
      [] OTHER -> [Call(c, "NotFound") EXCEPT
                      !.w = HttpError(@, "404 page not found", StatusNotFound, c.writeOk)]

\* the context after the mux has served one request on the current table,
\* environ being what os.Getenv returns to origin check
Routed(req, dbOk, environ) ==
    ServeMux(handler,
             [req |-> req, environ |-> environ, dbOk |-> dbOk, writeOk |-> TRUE,
              now |-> 1, w |-> NewRecorder, store |-> visits, events |-> <<>>,
              total |-> httpRequestsTotal, duration |-> httpRequestDuration])

\* what origin check decided for the request of c, if it ran
Decision(c) ==
    IF \E layer \in {"originCheckMiddleware", "originCheckMain"} :
           Calls(c.events, layer) > 0
    THEN {<<Origin(c.req), Host(c.req), Calls(c.events, "visitCountHandler") > 0>>}
    ELSE {}

AllIdle == flight = EmptyBag

\* the ALLOWED_ORIGINS line of the .env file: none, one origin, another
EnvFiles == {<<>>, <<"a">>, <<"a", "a">>}

\* main() up to ListenAndServe: godotenv.Load sets ALLOWED_ORIGINS from the
\* .env file unless the environment has it; log.Fatal when it is still unset;
\* origin check is added when APP_ENV is "prod"
Start ==
    \E file \in EnvFiles, appEnv \in {"prod", ""} :
        /\ phase = "boot"
        /\ env' = IF env = <<>> THEN file ELSE env
        /\ IF env' = <<>>
           THEN /\ phase' = "exited"
                /\ exitCode' = 1
                /\ UNCHANGED handler
           ELSE /\ phase' = "serving"
                /\ handler' = IF appEnv = "prod" THEN ProdChain ELSE DevChain
                /\ UNCHANGED exitCode
        /\ UNCHANGED <<requestVars, boot, flight, batch, decisions>>

\* the requests clients send, each with the outcome of its database call: a
\* POST to the API, a GET of /healthz, and a GET of /readyz, which calls none
Arrivals ==
    {<<Request("POST", apiPath, <<"a">>, <<"a">>), dbOk>> : dbOk \in BOOLEAN}
        \cup {<<Request("GET", "/healthz", <<"a">>, <<"a">>), dbOk>> : dbOk \in BOOLEAN}
        \cup {<<Request("GET", "/readyz", <<"a">>, <<"a">>), TRUE>>}

\* the database calls of the handlers: Exec, QueryRow, Ping
DatabaseCalls(c) ==
    Calls(c.events, "IncrementVisitCount") + Calls(c.events, "GetVisitCount")
        + Calls(c.events, "Ping")

\* a request in flight is <<request, dbOk, pc, environ>>: "accepted" until
\* its goroutine has run up to the database call, "admitted" while it waits
\* for the statement, environ being the ALLOWED_ORIGINS value it read, then
\* "handled" until its response is flushed
Pending(f) == f[3] \in {"accepted", "admitted"}

\* a bug: Shutdown leaves the listener open
MutAcceptWhileDraining ==
    \E a \in Arrivals :
        /\ phase \in {"serving", "draining"}
        /\ BagCardinality(flight) < MaxInflight
        /\ flight' = flight (+) SetToBag({<<a[1], a[2], "accepted", <<>>>>})
        /\ batch' = [base  |-> IF AllIdle THEN Len(visits) ELSE batch.base,
                     posts |-> (IF AllIdle THEN 0 ELSE batch.posts)
                               + (IF Method(a[1]) = "POST" /\ a[2] THEN 1 ELSE 0)]
        /\ batch'.posts <= MaxVisits
        /\ UNCHANGED <<env, requestVars, boot, phase, exitCode, handler, decisions>>

\* a request arrives while the listener is open; its connection is active
\* from now on
Accept ==
    \E a \in Arrivals :
        /\ phase = "serving"
        /\ BagCardinality(flight) < MaxInflight
        /\ flight' = flight (+) SetToBag({<<a[1], a[2], "accepted", <<>>>>})
        /\ batch' = [base  |-> IF AllIdle THEN Len(visits) ELSE batch.base,
                     posts |-> (IF AllIdle THEN 0 ELSE batch.posts)
                               + (IF Method(a[1]) = "POST" /\ a[2] THEN 1 ELSE 0)]
        /\ batch'.posts <= MaxVisits
        /\ UNCHANGED <<env, requestVars, boot, phase, exitCode, handler, decisions>>

\* the goroutine of a request in flight runs the mux and the middleware up to
\* the database call: origin check reads ALLOWED_ORIGINS now and decides.  A
\* request that reaches no database call (rejected, or no such path) has its
\* response written and its handler returns; the others wait for the database
Admit ==
    \E f \in BagToSet(flight) :
        /\ phase \in {"serving", "draining"}
        /\ f[3] = "accepted"
        /\ \E c \in {Routed(f[1], f[2], env)} :
            /\ decisions' = decisions \cup Decision(c)
            /\ IF DatabaseCalls(c) = 0
               THEN /\ last' = Exchange(handler, c)
                    /\ flight' = (flight (-) SetToBag({f}))
                                     (+) SetToBag({<<f[1], f[2], "handled", <<>>>>})
               ELSE /\ last' = last
                    /\ flight' = (flight (-) SetToBag({f}))
                                     (+) SetToBag({<<f[1], f[2], "admitted", env>>})
        /\ UNCHANGED <<visits, httpRequestsTotal, httpRequestDuration, incremented>>
        /\ UNCHANGED <<env, boot, phase, exitCode, handler, batch>>

\* the statement of a waiting request runs on the table as it is now, and the
\* handler writes the response to the connection's buffer, logs and returns;
\* the request stays in flight
Handle ==
    \E f \in BagToSet(flight) :
        /\ phase \in {"serving", "draining"}
        /\ f[3] = "admitted"
        /\ \E c \in {Routed(f[1], f[2], f[4])} :
            /\ WithinBounds(c)
            /\ visits' = c.store
            /\ httpRequestsTotal' = c.total
            /\ httpRequestDuration' = c.duration
            /\ incremented' = incremented + Inserted(c)
            /\ last' = Exchange(handler, c)
        /\ flight' = (flight (-) SetToBag({f}))
                         (+) SetToBag({<<f[1], f[2], "handled", <<>>>>})
        /\ UNCHANGED <<env, boot, phase, exitCode, handler, batch, decisions>>

\* the response of a request whose handler has returned is flushed to the
\* client and its connection becomes idle
Respond ==
    \E f \in BagToSet(flight) :
        /\ phase \in {"serving", "draining"}
        /\ ~Pending(f)
        /\ flight' = flight (-) SetToBag({f})
        /\ UNCHANGED <<env, requestVars, boot, phase, exitCode, handler, batch, decisions>>

\* ListenAndServe returns an error other than ErrServerClosed: the address
\* cannot be bound, or accepting fails later; log.Fatalf exits
ListenFails ==
    /\ phase = "serving"
    /\ phase' = "exited"
    /\ exitCode' = 1
    /\ UNCHANGED <<env, requestVars, boot, handler, flight, batch, decisions>>

\* SIGINT or SIGTERM: main() calls server.Shutdown, which closes the listener
Signal ==
    /\ phase = "serving"
    /\ phase' = "draining"
    /\ UNCHANGED <<env, requestVars, boot, exitCode, handler, flight, batch, decisions>>

\* Shutdown finds no request in flight and returns nil; main() returns
ShutdownReturns ==
    /\ phase = "draining"
    /\ AllIdle
    /\ phase' = "exited"
    /\ exitCode' = 0
    /\ UNCHANGED <<env, requestVars, boot, handler, flight, batch, decisions>>

\* the 5 seconds pass with a request still in flight: Shutdown returns the
\* context's error and log.Fatalf exits; what is in flight is cut off
GraceExpires ==
    /\ phase = "draining"
    /\ ~AllIdle
    /\ phase' = "exited"
    /\ exitCode' = 1
    /\ UNCHANGED <<env, requestVars, boot, handler, flight, batch, decisions>>

NextHandler == HandlerRequest \/ DevRequest

SpecHandler == Init /\ [][NextHandler]_vars

NextOrigin == Setenv \/ OriginRequest \/ MainRequest

SpecOrigin == Init /\ [][NextOrigin]_vars

NextSetup == CallSetupDatabase \/ CloseStore

SpecSetup == Init /\ [][NextSetup]_vars

NextServer ==
    \/ Start \/ ListenFails \/ Accept \/ Admit \/ Handle \/ Respond
    \/ Signal \/ ShutdownReturns \/ GraceExpires

\* Shutdown polls the connections until they are idle, and the deadline of
\* its context passes: neither can be postponed forever
SpecServer ==
    Init /\ [][NextServer]_vars /\ WF_vars(ShutdownReturns) /\ WF_vars(GraceExpires)

\* the environment changed under a running server, as the tests change it
NextReload == Setenv \/ Start \/ Accept \/ Admit \/ Handle \/ Respond

SpecReload == Init /\ [][NextReload]_vars

NextMetrics == MetricsRequest

SpecMetrics == Init /\ [][NextMetrics]_vars

---------------------------------------------------------------------------
(* Properties.  They speak of the last request served: its inputs, the     *)
(* response it got, the calls made for it, and the state before and after. *)

Reached(name) == Calls(last.events, name) > 0

VisitServed == Reached("visitCountHandler")

\* the handler a layer of the last request's chain wraps, and the calls it got
Downstream(layer) ==
    last.chain[(CHOOSE i \in DOMAIN last.chain : last.chain[i] = layer) + 1]

DownstreamCalls(layer) == Calls(last.events, Downstream(layer))

StorageCalls ==
    Calls(last.events, "IncrementVisitCount") + Calls(last.events, "GetVisitCount")

\* the table after one row with the request's timestamp was added
OneRecordAdded ==
    /\ Len(visits) = Len(last.storeBefore) + 1
    /\ SubSeq(visits, 1, Len(last.storeBefore)) = last.storeBefore
    /\ visits[Len(visits)].timestamp = last.now

\* the count a successful get-visit-count returns in this state
VisitCount == GetVisitCount(visits, TRUE).count

\* C1: a POST whose insert succeeds is answered 200 with the body
\* {"message":"Visit count incremented"}, exactly one record is added and
\* IncrementVisitCount is called exactly once.
C1_AsStated ==
    (VisitServed /\ Method(last.req) = "POST" /\ last.dbOk) =>
        /\ Code(last.w) = StatusOK
        /\ last.w.body = <<MessageBody>>
        /\ OneRecordAdded
        /\ Calls(last.events, "IncrementVisitCount") = 1

\* C2: the count a successful get-visit-count returns is the number of
\* successful increment-visit calls made so far on the freshly provisioned
\* store (0 on the empty store), and a successful GET answers 200 with
\* {"visits": n} for that number n.
C2_CountIsIncrements ==
    /\ VisitCount = incremented
    /\ (VisitServed /\ Method(last.req) = "GET" /\ last.dbOk /\ last.writeOk) =>
        /\ Code(last.w) = StatusOK
        /\ last.w.body = <<VisitsBody(incremented)>>
        /\ VisitsOf(last.w.body[1]) = incremented

C2_Witness ==
    /\ VisitServed /\ Method(last.req) = "GET" /\ last.dbOk /\ last.writeOk
    /\ incremented = 2
    /\ \E i, j \in DOMAIN visits : visits[i].timestamp > visits[j].timestamp /\ i < j
    /\ VisitsOf(last.w.body[1]) = 2

\* C3: a request whose verb is neither GET nor POST is answered 405, no
\* storage operation is invoked and the table is unchanged.
C3_OtherVerb405 ==
    (VisitServed /\ Method(last.req) \notin {"GET", "POST"}) =>
        /\ Code(last.w) = StatusMethodNotAllowed
        /\ StorageCalls = 0
        /\ visits = last.storeBefore

C3_Witness ==
    /\ VisitServed /\ Method(last.req) = "PUT"
    /\ visits # <<>>
    /\ Code(last.w) = StatusMethodNotAllowed

\* C4: when the storage call of a POST or GET fails, the response is 500 (never
\* 200), no second storage call is made, and a failed POST leaves the count
\* unchanged.
C4_StorageError500 ==
    (VisitServed /\ Method(last.req) \in {"GET", "POST"} /\ ~last.dbOk) =>
        /\ Code(last.w) = StatusInternalServerError
        /\ StorageCalls = 1
        /\ visits = last.storeBefore
        /\ VisitCount = Len(last.storeBefore)

C4_Witness ==
    /\ VisitServed /\ Method(last.req) = "POST" /\ ~last.dbOk
    /\ visits # <<>>
    /\ Code(last.w) = StatusInternalServerError

\* C22: the visit handler changes the table only through a POST whose insert
\* succeeds, which appends exactly one row with a fresh identity and the
\* request's timestamp; a GET, successful or failing, a failing POST and any
\* other verb leave the table as it was, and no existing row is ever changed
\* or removed.
C22_AppendOnly ==
    VisitServed =>
        /\ Len(visits) >= Len(last.storeBefore)
        /\ SubSeq(visits, 1, Len(last.storeBefore)) = last.storeBefore
        /\ \A i \in DOMAIN visits, j \in DOMAIN visits :
              visits[i].id = visits[j].id => i = j
        /\ IF Method(last.req) = "POST" /\ last.dbOk
           THEN /\ Len(visits) = Len(last.storeBefore) + 1
                /\ visits[Len(visits)].timestamp = last.now
           ELSE visits = last.storeBefore
        /\ Method(last.req) = "GET" => Calls(last.events, "IncrementVisitCount") = 0

C22_Witness ==
    /\ VisitServed /\ Method(last.req) = "GET" /\ ~last.dbOk
    /\ Len(visits) = 2
    /\ visits = last.storeBefore
    /\ Code(last.w) = StatusInternalServerError

\* C12: when a POST's insert succeeds but serializing the success body fails,
\* the status code of the response delivered to the client is 500.
C12_AsStated ==
    (VisitServed /\ Method(last.req) = "POST" /\ last.dbOk /\ ~last.writeOk) =>
        Code(last.w) = StatusInternalServerError

\* what the handler below a layer answers to the last request when called
\* directly, from the state before it
Directly(layer) ==
    ServeHTTP(<<Downstream(layer)>>,
              [req |-> last.req, environ |-> env, dbOk |-> last.dbOk,
               writeOk |-> last.writeOk, now |-> last.now, w |-> NewRecorder,
               store |-> last.storeBefore, events |-> <<>>,
               total |-> last.totalBefore, duration |-> last.durationBefore])

\* C17: the logging middleware invokes downstream exactly once for every
\* request, whatever downstream answers; the status, the body and the table are
\* those downstream produces; and the one log line is written after downstream
\* has returned, as the last call of the request.
C17_LoggingTransparent ==
    Reached("loggingMiddleware") =>
        /\ DownstreamCalls("loggingMiddleware") = 1
        /\ Calls(last.events, "log.Printf") = 1
        /\ last.events[Len(last.events)] = "log.Printf"
        /\ Code(last.w) = Code(Directly("loggingMiddleware").w)
        /\ last.w.body = Directly("loggingMiddleware").w.body
        /\ visits = Directly("loggingMiddleware").store

C17_Witness ==
    /\ Reached("loggingMiddleware")
    /\ Method(last.req) = "POST" /\ ~last.dbOk
    /\ Code(last.w) = StatusInternalServerError
    /\ last.events[Len(last.events)] = "log.Printf"

---------------------------------------------------------------------------
(* Origin check *)

OriginLayers == {"originCheckMiddleware", "originCheckMain"}

\* the comma-separated entries of an allow-list value
Entries(list) == {Split(list, ",")[i] : i \in DOMAIN Split(list, ",")}

\* what a variant compares with the entries: main.go takes the Host of a
\* request without Origin
Compared(layer) ==
    IF layer = "originCheckMain" /\ Origin(last.req) = <<>>
    THEN Host(last.req) ELSE Origin(last.req)

Rejected403(layer) ==
    /\ Code(last.w) = StatusForbidden
    /\ DownstreamCalls(layer) = 0

\* C5 as stated: with a non-empty allow-list, a request whose Origin header
\* equals no entry is answered 403 and downstream is not invoked.
C5_AsStated ==
    \A layer \in OriginLayers :
        (Reached(layer) /\ env # <<>> /\ Origin(last.req) \notin Entries(env)) =>
            Rejected403(layer)

\* C5 as amended: with a non-empty allow-list, a request whose compared value
\* (the Origin header; in main.go the Host when the Origin header is empty)
\* equals no entry, whole string, case and blanks included, is answered 403
\* and downstream is not invoked.
C5_NoMatch403 ==
    \A layer \in OriginLayers :
        (Reached(layer) /\ env # <<>> /\ Compared(layer) \notin Entries(env)) =>
            Rejected403(layer)

C5_Witness ==
    /\ Reached("originCheckMiddleware")
    /\ env = <<"a", ",", " ", "A">>
    /\ Origin(last.req) = <<"A">>
    /\ Rejected403("originCheckMiddleware")

\* C6: with a non-empty allow-list, a request whose Origin header equals an
\* entry passes: downstream is invoked exactly once and the response carries
\* Access-Control-Allow-Origin with the request's Origin value.
C6_AsStated ==
    \A layer \in OriginLayers :
        (Reached(layer) /\ env # <<>> /\ Origin(last.req) \in Entries(env)) =>
            /\ DownstreamCalls(layer) = 1
            /\ last.w.allowOrigin = Origin(last.req)

\* C7: with the allow-list unset or empty, every request is rejected (500 in
\* middleware.go, 403 in main.go), downstream is not invoked and no storage
\* call occurs.
C7_UnsetRejects ==
    \A layer \in OriginLayers :
        (Reached(layer) /\ env = <<>>) =>
            /\ Code(last.w) = (IF layer = "originCheckMain" THEN StatusForbidden
                               ELSE StatusInternalServerError)
            /\ DownstreamCalls(layer) = 0
            /\ StorageCalls = 0
            /\ visits = last.storeBefore

C7_Witness ==
    /\ env = <<>>
    /\ last.chain = ProdChain
    /\ Method(last.req) = "POST"
    /\ Origin(last.req) = <<"a">>
    /\ visits # <<>>
    /\ Code(last.w) = StatusForbidden

\* C8: in middleware.go, with any non-empty allow-list value, a request that
\* carries no Origin header is answered 403 and downstream is not invoked.
C8_AsStated ==
    (Reached("originCheckMiddleware") /\ env # <<>> /\ Origin(last.req) = <<>>) =>
        Rejected403("originCheckMiddleware")

\* C13: in the pipeline composed for production mode, origin check sits
\* innermost, directly around the visit handler, so a request it rejects with
\* 403 is still observed by the outer layers: the logging layer writes its log
\* line and the metrics layer records the request.
C13_AsStated ==
    (last.chain = ProdChain /\ Rejected403("originCheckMain")) =>
        /\ Downstream("originCheckMain") = "visitCountHandler"
        /\ Calls(last.events, "log.Printf") = 1
        /\ Reached("prometheusMiddleware")

\* C20: in main.go's origin check with a non-empty allow-list, a request
\* without Origin header is passed downstream exactly when its Host equals an
\* entry and is otherwise answered 403; a request with an Origin header is
\* passed exactly when that Origin equals an entry, whatever its Host.
C20_HostFallback ==
    (Reached("originCheckMain") /\ env # <<>>) =>
        /\ Origin(last.req) = <<>> =>
              /\ DownstreamCalls("originCheckMain") = 1 <=> Host(last.req) \in Entries(env)
              /\ Host(last.req) \notin Entries(env) => Rejected403("originCheckMain")
        /\ Origin(last.req) # <<>> =>
              /\ DownstreamCalls("originCheckMain") = 1 <=> Origin(last.req) \in Entries(env)
              /\ Origin(last.req) \notin Entries(env) => Rejected403("originCheckMain")

C20_Witness ==
    /\ last.chain = ProdChain
    /\ env = <<"a", ",", "A">>
    /\ Origin(last.req) = <<>> /\ Host(last.req) = <<"a">>
    /\ Method(last.req) = "POST" /\ last.dbOk
    /\ DownstreamCalls("originCheckMain") = 1
    /\ Len(visits) = Len(last.storeBefore) + 1

\* the last request was answered by origin check itself: 403, or the 500 or
\* 403 of an unset allow-list
OriginRejected(layer) ==
    /\ Reached(layer)
    /\ \/ Code(last.w) = StatusForbidden
       \/ env = <<>> /\ Code(last.w) = StatusInternalServerError

\* C21: with origin check in front of the visit handler, a POST that origin
\* check rejects adds no row: the table and the visit count after the request
\* are those before it, and the store was not called.
C21_RejectedPostAddsNothing ==
    \A layer \in OriginLayers :
        (OriginRejected(layer) /\ Method(last.req) = "POST") =>
            /\ visits = last.storeBefore
            /\ VisitCount = Len(last.storeBefore)
            /\ StorageCalls = 0

C21_Witness ==
    /\ last.chain = ProdChain
    /\ env = <<"a", ",", "A">>
    /\ Origin(last.req) = <<" ", "A">>
    /\ Method(last.req) = "POST" /\ last.dbOk
    /\ OriginRejected("originCheckMain")
    /\ Len(visits) = 1

\* C10: the visit count is never negative and no step decreases it.
C10_CountMonotone ==
    [][VisitCount >= 0 /\ VisitCount' >= 0 /\ VisitCount' >= VisitCount]_vars

C10_Witness ==
    /\ VisitCount >= 2
    /\ Reached("originCheckMiddleware")
    /\ Method(last.req) = "POST"
    /\ Code(last.w) = StatusForbidden

---------------------------------------------------------------------------
(* Store construction *)

\* the position of a step among the calls of the last SetupDatabase, 0 if absent
Step(name) ==
    IF \E i \in DOMAIN boot.r.calls : boot.r.calls[i] = name
    THEN CHOOSE i \in DOMAIN boot.r.calls : boot.r.calls[i] = name
    ELSE 0

\* C11: SetupDatabase returns a store only after the ping and then the table
\* provisioning have both succeeded; it returns either a store or an error,
\* never both; when the ping fails the table is not provisioned; and when
\* either step fails no store is returned and the pool that was opened has
\* been closed as the last step before returning, and stays closed.  The pool
\* of a returned store is open until the store is closed.
C11_SetupOrder ==
    boot.called =>
        /\ boot.r.store <=> boot.r.err = ""
        /\ boot.r.store =>
              /\ boot.pingOk /\ boot.createOk
              /\ 0 < Step("Ping") /\ Step("Ping") < Step("createTable")
              /\ boot.r.pool = "open"
        /\ (Step("Ping") > 0 /\ ~boot.pingOk) => Step("createTable") = 0
        /\ (Step("Ping") > 0 /\ (~boot.pingOk \/ ~boot.createOk)) =>
              /\ ~boot.r.store
              /\ boot.r.pool = "closed"
              /\ boot.r.calls[Len(boot.r.calls)] = "Close"
        /\ Step("NewWithConfig") = 0 => boot.r.pool = "none"
        /\ ~boot.r.store => boot.pool = boot.r.pool
        /\ boot.r.store => boot.pool \in {"open", "closed"}

C11_Witness ==
    /\ boot.called
    /\ boot.pingOk /\ ~boot.createOk
    /\ Step("createTable") > Step("Ping")
    /\ boot.r.pool = "closed"
    /\ boot.pool = "closed"
    /\ boot.r.err = "failed to create table"

\* C15 (store construction): when any of DB_USER, DB_PASSWORD, DB_HOST,
\* DB_PORT, DB_NAME is unset or empty, SetupDatabase fails and builds no store.
C15_AsStated ==
    (boot.called /\ \E i \in DOMAIN DBKeys : mustGetenv(boot.environ, DBKeys[i]).err) =>
        /\ ~boot.r.store
        /\ boot.r.err # ""

---------------------------------------------------------------------------
(* The running server *)

\* C14: the allow-list is loaded once at process start: for the whole process
\* lifetime two requests with the same Origin and Host get the same decision
\* from origin check, even if ALLOWED_ORIGINS is changed after startup.
C14_AsStated ==
    \A d1 \in decisions, d2 \in decisions :
        (d1[1] = d2[1] /\ d1[2] = d2[2]) => d1[3] = d2[3]

\* C16: once the termination signal has arrived no request is accepted any
\* more; a request in flight leaves only by completing, its handler returned
\* and its response flushed; Shutdown ends in a clean exit exactly when
\* nothing is in flight, and otherwise what is in flight when the grace period
\* expires is cut off by a failing exit; and after the signal the process
\* eventually exits.
C16_Shutdown ==
    /\ [][phase # "serving" =>
              /\ BagCardinality(flight') <= BagCardinality(flight)
              /\ \A g \in BagToSet(flight') :
                    g[3] = "accepted" => CopiesIn(g, flight') <= CopiesIn(g, flight)]_vars
    /\ [][(phase = "draining" /\ BagCardinality(flight') < BagCardinality(flight)) =>
              \E f \in BagToSet(flight) :
                  /\ ~Pending(f)
                  /\ flight' = flight (-) SetToBag({f})
                  /\ phase' = "draining"]_vars
    /\ [][(phase = "draining" /\ phase' = "exited") =>
              /\ exitCode' = 0 <=> AllIdle
              /\ flight' = flight]_vars
    /\ (phase = "draining") ~> (phase = "exited")

C16_Witness ==
    /\ phase = "exited"
    /\ exitCode = 1
    /\ BagToSet(flight) = {<<Request("POST", apiPath, <<"a">>, <<"a">>), TRUE, "handled", <<>>>>}
    /\ BagCardinality(flight) = 2
    /\ Len(visits) = 2

\* C18: GET /healthz is answered 200 exactly when the storage ping succeeds
\* and 500 when it fails, GET /readyz is answered 200, and neither changes
\* the table.
C18_AsStated ==
    /\ (last.chain # <<>> /\ Path(last.req) = "/healthz") =>
          /\ Code(last.w) = (IF last.dbOk THEN StatusOK ELSE StatusInternalServerError)
          /\ visits = last.storeBefore
    /\ (last.chain # <<>> /\ Path(last.req) = "/readyz") =>
          /\ Code(last.w) = StatusOK
          /\ visits = last.storeBefore

\* every accepted POST reaches the store: no origin check, or one that admits
\* the requests' Origin
PostsAdmitted == handler = DevChain \/ Allowed(env, <<"a">>)

\* C19: whatever the order in which the handlers of concurrent requests run,
\* once all of them have completed the visit count is the count before the
\* first of them was accepted plus the number of POSTs among them whose
\* insert succeeds.
C19_NoLostIncrement ==
    (handler # <<>> /\ PostsAdmitted /\ AllIdle) =>
        VisitCount = batch.base + batch.posts

C19_Witness ==
    /\ handler = DevChain
    /\ AllIdle
    /\ batch.base = 1 /\ batch.posts = 2
    /\ VisitCount = 3

---------------------------------------------------------------------------
(* Metrics *)

\* C9: a request through the metrics middleware with method m and path p adds
\* exactly 1 to the counter of (m, p) and one observation to its histogram,
\* also when downstream short-circuits or fails; no other label changes and
\* downstream is invoked exactly once.
C9_OneCountOneObservation ==
    Reached("prometheusMiddleware") =>
        LET l == <<Method(last.req), Path(last.req)>> IN
        /\ httpRequestsTotal[l] = last.totalBefore[l] + 1
        /\ httpRequestDuration[l] = last.durationBefore[l] + 1
        /\ \A k \in Labels \ {l} :
              /\ httpRequestsTotal[k] = last.totalBefore[k]
              /\ httpRequestDuration[k] = last.durationBefore[k]
        /\ DownstreamCalls("prometheusMiddleware") = 1

C9_Witness ==
    /\ Reached("prometheusMiddleware")
    /\ Reached("originCheckMiddleware")
    /\ Code(last.w) = StatusInternalServerError
    /\ httpRequestsTotal[<<Method(last.req), Path(last.req)>>] = 2
    /\ \E k \in Labels : k # <<Method(last.req), Path(last.req)>>
                         /\ httpRequestsTotal[k] > 0

====
